---- MODULE Spec2Model ----
(***************************************************************************)
(* A model of src/apf/mod.rs: the evaluation of a restricted shell script  *)
(* (NAME=value assignments chained with && / ||) into a Context.           *)
(*                                                                         *)
(* Strings are sequences of one-character strings.  A Rust Result is a     *)
(* record with a tag: "Ok" (with val when it carries a String), "Err"      *)
(* (with kind and reason, the reason being the fragments the message is    *)
(* formatted from) or "Panic" (todo!() was reached: the call never         *)
(* returns).                                                               *)
(***************************************************************************)
EXTENDS Naturals, Sequences, FiniteSets, TLC

VARIABLES
    context,      \* the Context map: name -> None | Some(string)
    iterOrder,    \* the order in which the Context map iterates its keys
    pc,           \* position in parse: "parse", "list", "simple", "done", "panic", "input"
    parseRes,     \* what parse returned (tag "None" while it has not returned)
    listLen,      \* number of listable commands of the current top-level list
    conns,        \* the connectives (&&, ||) of the list met so far
    entries,      \* the kinds of the redirects_or_env_vars of the current simple command
    construct,    \* the first disallowed construct met: "none", or met "clean" / "dirty"
    results,      \* the results vector collected by get_args_top_level
    idx,          \* index of the next entry of the current simple command
    committed,    \* whether the current simple command has inserted into the Context
    stmtAssigned, \* names first defined by the current top-level command so far
    lastRefs,     \* names referenced by the value evaluated last
    expected,     \* the Context a literal-only script must produce
    literalOnly,  \* whether the script so far is made only of NAME=literal assignments
    entry         \* the assignment being evaluated ([name, word])

vars == <<context, iterOrder, pc, parseRes, listLen, conns, entries, construct, results,
          idx, committed, stmtAssigned, lastRefs, expected, literalOnly, entry>>

\* Bounds of the model.
MaxList == 2
MaxEntries == 2

Names == {"A", "B"}

None == [some |-> FALSE]
Some(v) == [some |-> TRUE, v |-> v]

NL == "\n"

(***************************************************************************)
(* Results and errors.                                                     *)
(***************************************************************************)
Ok(v) == [tag |-> "Ok", val |-> v]
OkUnit == [tag |-> "Ok"]
Err(kind, reason) == [tag |-> "Err", kind |-> kind, reason |-> reason]
Panic == [tag |-> "Panic"]
NoResult == [tag |-> "None"]

InvalidSyntax(reason) == Err("InvalidSyntax", reason)
ContextError(reason) == Err("ContextError", reason)
SubstitutionError(reason) == Err("SubstitutionError", reason)

(***************************************************************************)
(* The syntax tree handed over by the parser.                              *)
(***************************************************************************)
\* ast::Parameter
Var(name) == [kind |-> "Var", name |-> name]
SpecialParam == [kind |-> "At"]

\* ast::ParameterSubstitution
ReplaceString(param, command) == [kind |-> "ReplaceString", param |-> param, command |-> command]
ReplaceStringAll(param, command) == [kind |-> "ReplaceStringAll", param |-> param, command |-> command]
Substring(param, command) == [kind |-> "Substring", param |-> param, command |-> command]
OtherSubst(kind, param) == [kind |-> kind, param |-> param]
OtherSubstKinds == {"Command", "Arith", "Default", "Len", "RemoveSmallestSuffix"}

\* ast::SimpleWord
Literal(s) == [kind |-> "Literal", s |-> s]
Escaped(s) == [kind |-> "Escaped", s |-> s]
Colon == [kind |-> "Colon"]
Star == [kind |-> "Star"]
Param(p) == [kind |-> "Param", param |-> p]
Subst(s) == [kind |-> "Subst", subst |-> s]

\* ast::Word
Simple(w) == [kind |-> "Simple", word |-> w]
SingleQuoted(s) == [kind |-> "SingleQuoted", s |-> s]
DoubleQuoted(ws) == [kind |-> "DoubleQuoted", words |-> ws]

\* ast::ComplexWord
Single(w) == [kind |-> "Single", word |-> w]
Concat(ws) == [kind |-> "Concat", words |-> ws]

(***************************************************************************)
(* The substitution engine (mod substitution).                             *)
(***************************************************************************)
IndexOf(s, c) ==
    IF \E i \in 1..Len(s) : s[i] = c
    THEN CHOOSE i \in 1..Len(s) : s[i] = c /\ \A j \in 1..(i - 1) : s[j] # c
    ELSE 0

MatchAt(s, pat, i) ==
    /\ Len(pat) > 0
    /\ i + Len(pat) - 1 <= Len(s)
    /\ \A k \in 1..Len(pat) : s[i + k - 1] = pat[k]

RECURSIVE ReplaceFrom(_, _, _, _, _)
ReplaceFrom(s, pat, rep, all, i) ==
    IF i > Len(s) THEN <<>>
    ELSE IF MatchAt(s, pat, i)
         THEN rep \o (IF all THEN ReplaceFrom(s, pat, rep, all, i + Len(pat))
                             ELSE SubSeq(s, i + Len(pat), Len(s)))
         ELSE <<s[i]>> \o ReplaceFrom(s, pat, rep, all, i + 1)

get_replace(origin, command, all) ==
    LET sep == IndexOf(command, "/") IN
    IF sep = 0
    THEN SubstitutionError(<<"no separator">>)
    ELSE Ok(ReplaceFrom(origin, SubSeq(command, 1, sep - 1),
                        SubSeq(command, sep + 1, Len(command)), all, 1))

Digits == <<"0", "1", "2", "3", "4", "5", "6", "7", "8", "9">>
IsNumber(s) == Len(s) > 0 /\ \A i \in 1..Len(s) : \E d \in 1..10 : Digits[d] = s[i]
DigitValue(c) == (CHOOSE d \in 1..10 : Digits[d] = c) - 1

RECURSIVE ToNat(_)
ToNat(s) == IF s = <<>> THEN 0 ELSE 10 * ToNat(SubSeq(s, 1, Len(s) - 1)) + DigitValue(s[Len(s)])

Min(a, b) == IF a <= b THEN a ELSE b

get_substring(origin, command) ==
    LET sep == IndexOf(command, ":")
        off == IF sep = 0 THEN command ELSE SubSeq(command, 1, sep - 1)
        len == IF sep = 0 THEN <<>> ELSE SubSeq(command, sep + 1, Len(command))
    IN  IF ~IsNumber(off) \/ (sep # 0 /\ ~IsNumber(len))
        THEN SubstitutionError(<<"not a number">>)
        ELSE LET o == ToNat(off)
                 rest == IF o >= Len(origin) THEN <<>> ELSE SubSeq(origin, o + 1, Len(origin))
             IN  Ok(IF sep = 0 THEN rest ELSE SubSeq(rest, 1, Min(ToNat(len), Len(rest))))

(***************************************************************************)
(* Word and parameter evaluation.                                          *)
(***************************************************************************)
get_parameter_as_string(parameter, ctx) ==
    IF parameter.kind = "Var"
    THEN Ok(ctx[parameter.name])
    ELSE InvalidSyntax(<<"Unsupported parameter.">>)

\* The reason of get_simple_word_as_string for a parameter that is not set.
UnsetParamEmpty(parameter) == Ok(<<>>)
UnsetParam(parameter) == ContextError(<<"Param variable not found.">>)

\* Display of an ast::Parameter, as formatted into a reason.
ParamText(parameter) == IF parameter.kind = "Var" THEN parameter.name ELSE "@"

get_subst_origin(param, ctx) ==
    LET r == get_parameter_as_string(param, ctx) IN
    IF r.tag # "Ok" THEN r
    ELSE IF r.val.some THEN Ok(r.val.v)
    ELSE ContextError(<<"Param ", ParamText(param), " not found.">>)

RECURSIVE get_complex_word_as_string(_, _)
RECURSIVE get_word_as_string(_, _)
RECURSIVE get_simple_word_as_string(_, _)
RECURSIVE get_subst_result(_, _)
RECURSIVE ConcatWords(_, _, _)
RECURSIVE ConcatSimpleWords(_, _, _)

\* The loop of get_complex_word_as_string over the words of a Concat.
ConcatWords(words, ctx, acc) ==
    IF words = <<>> THEN Ok(acc)
    ELSE LET r == get_word_as_string(Head(words), ctx) IN
         IF r.tag # "Ok" THEN r ELSE ConcatWords(Tail(words), ctx, acc \o r.val)

\* The loop of get_word_as_string over the simple words of a DoubleQuoted.
ConcatSimpleWords(words, ctx, acc) ==
    IF words = <<>> THEN Ok(acc)
    ELSE LET r == get_simple_word_as_string(Head(words), ctx) IN
         IF r.tag # "Ok" THEN r ELSE ConcatSimpleWords(Tail(words), ctx, acc \o r.val)

get_complex_word_as_string(word, ctx) ==
    IF word.kind = "Single"
    THEN get_word_as_string(word.word, ctx)
    ELSE LET r == ConcatWords(word.words, ctx, <<>>) IN
         IF r.tag # "Ok" THEN r
         ELSE get_word_as_string(Simple(Literal(r.val)), ctx)

get_word_as_string(word, ctx) ==
    CASE word.kind = "SingleQuoted" -> Ok(word.s)
      [] word.kind = "Simple" -> get_simple_word_as_string(word.word, ctx)
      [] word.kind = "DoubleQuoted" -> ConcatSimpleWords(word.words, ctx, <<>>)

get_simple_word_as_string(word, ctx) ==
    CASE word.kind = "Literal" -> Ok(word.s)
      [] word.kind = "Escaped" -> IF word.s = <<NL>> THEN Ok(<<>>) ELSE Ok(word.s)
      [] word.kind = "Colon" -> Ok(<<":">>)
      [] word.kind = "Param" ->
            LET r == get_parameter_as_string(word.param, ctx) IN
            IF r.tag # "Ok" THEN r
            ELSE IF r.val.some THEN Ok(r.val.v)
            ELSE UnsetParam(word.param)
      [] word.kind = "Subst" -> get_subst_result(word.subst, ctx)
      [] OTHER -> InvalidSyntax(<<"Encountered star, square, tide, or other unsupported chatacters.">>)

\* The arm shared by ReplaceString, ReplaceStringAll and Substring: the origin,
\* then the command word.
SubstOperands(subst, ctx) ==
    LET origin == get_subst_origin(subst.param, ctx) IN
    IF origin.tag # "Ok" THEN origin
    ELSE IF ~subst.command.some
         THEN InvalidSyntax(<<"No substring command provided">>)
         ELSE LET command == get_complex_word_as_string(subst.command.v, ctx) IN
              IF command.tag # "Ok" THEN command
              ELSE Ok(<<origin.val, command.val>>)

\* The arm of get_subst_result for every other substitution: todo!().
UnsupportedSubst(subst) == Panic

get_subst_result(subst, ctx) ==
    IF subst.kind \in {"ReplaceString", "ReplaceStringAll", "Substring"}
    THEN LET ops == SubstOperands(subst, ctx) IN
         IF ops.tag # "Ok" THEN ops
         ELSE CASE subst.kind = "ReplaceString" -> get_replace(ops.val[1], ops.val[2], FALSE)
                [] subst.kind = "ReplaceStringAll" -> get_replace(ops.val[1], ops.val[2], TRUE)
                [] subst.kind = "Substring" -> get_substring(ops.val[1], ops.val[2])
    ELSE UnsupportedSubst(subst)

(***************************************************************************)
(* The Context map (HashMap<String, String>).                              *)
(***************************************************************************)
Present(ctx) == {n \in Names : ctx[n].some}

\* Every order in which a map holding the keys S may iterate them.
Orders(S) == {s \in [1..Cardinality(S) -> S] : \A i, j \in 1..Cardinality(S) : s[i] = s[j] => i = j}

ContextInsertDropped(ctx, name, value) == ctx
ContextInsertKeepFirst(ctx, name, value) == IF ctx[name].some THEN ctx ELSE [ctx EXCEPT ![name] = Some(value)]
ContextInsert(ctx, name, value) == [ctx EXCEPT ![name] = Some(value)]

\* The iteration orders the map may have after inserting name: a key already
\* present keeps its slot, a new key may land anywhere and may move the others.
OrdersAfterInsert(order, ctx, name) ==
    IF ctx[name].some THEN {order} ELSE Orders(Present(ctx) \cup {name})

(***************************************************************************)
(* get_args_simple.                                                        *)
(***************************************************************************)
HasRedirectNever(kinds) == FALSE
HasRedirect(kinds) == \E i \in 1..Len(kinds) : kinds[i] = "Redirect"

\* The checks of get_args_simple made before any entry is evaluated.
SimplePreCheck(shape) ==
    IF shape.words THEN InvalidSyntax(<<"Commands not allowed.">>)
    ELSE IF HasRedirect(shape.entries) THEN InvalidSyntax(<<"Redirects not allowed.">>)
    ELSE OkUnit

\* The value of one EnvVar(name, word) entry.
EnvVarValue(e, ctx) ==
    IF ~e.word.some
    THEN InvalidSyntax(<<"Variable ", e.name, " without value.">>)
    ELSE get_complex_word_as_string(e.word.v, ctx)

(***************************************************************************)
(* get_args_top_level.                                                     *)
(***************************************************************************)
\* Whether the iterator over the list has a command left to map.
MoreToEvaluateShortCircuit(res, n) == Len(res) < n /\ \A i \in 1..Len(res) : res[i].tag = "Ok"
MoreToEvaluate(res, n) == Len(res) < n

\* The loop over the collected results: the first error, or Ok(()).
FirstErrorLast(res) ==
    IF \E i \in 1..Len(res) : res[i].tag = "Err"
    THEN res[CHOOSE i \in 1..Len(res) : res[i].tag = "Err" /\ \A j \in (i + 1)..Len(res) : res[j].tag # "Err"]
    ELSE OkUnit
FirstError(res) ==
    IF \E i \in 1..Len(res) : res[i].tag = "Err"
    THEN res[CHOOSE i \in 1..Len(res) : res[i].tag = "Err" /\ \A j \in 1..(i - 1) : res[j].tag # "Err"]
    ELSE OkUnit

(***************************************************************************)
(* Syntactic helpers used to state the properties.                         *)
(***************************************************************************)
RECURSIVE RefsSimple(_)
RECURSIVE RefsWord(_)
RECURSIVE Refs(_)
RECURSIVE RefsSeq(_, _)

ParamRefs(p) == IF p.kind = "Var" THEN {p.name} ELSE {}

\* The plain variables a word refers to.
RefsSimple(w) ==
    CASE w.kind = "Param" -> ParamRefs(w.param)
      [] w.kind = "Subst" ->
            ParamRefs(w.subst.param) \cup
            (IF w.subst.kind \in {"ReplaceString", "ReplaceStringAll", "Substring"} /\ w.subst.command.some
             THEN Refs(w.subst.command.v) ELSE {})
      [] OTHER -> {}

RefsSeq(ws, simple) ==
    IF ws = <<>> THEN {}
    ELSE (IF simple THEN RefsSimple(Head(ws)) ELSE RefsWord(Head(ws))) \cup RefsSeq(Tail(ws), simple)

RefsWord(w) ==
    CASE w.kind = "Simple" -> RefsSimple(w.word)
      [] w.kind = "DoubleQuoted" -> RefsSeq(w.words, TRUE)
      [] OTHER -> {}

Refs(w) == IF w.kind = "Single" THEN RefsWord(w.word) ELSE RefsSeq(w.words, FALSE)

ValueRefs(e) == IF e.word.some THEN Refs(e.word.v) ELSE {}

\* The variable an evaluation looks up first, when it starts with a lookup.
LeadSimple(w) ==
    CASE w.kind = "Param" -> ParamRefs(w.param)
      [] w.kind = "Subst" /\ w.subst.kind \in {"ReplaceString", "ReplaceStringAll", "Substring"} ->
            ParamRefs(w.subst.param)
      [] OTHER -> {}

LeadWord(w) ==
    CASE w.kind = "Simple" -> LeadSimple(w.word)
      [] w.kind = "DoubleQuoted" -> IF w.words = <<>> THEN {} ELSE LeadSimple(Head(w.words))
      [] OTHER -> {}

LeadRef(e) ==
    IF ~e.word.some THEN {}
    ELSE IF e.word.v.kind = "Single" THEN LeadWord(e.word.v.word)
    ELSE IF e.word.v.words = <<>> THEN {} ELSE LeadWord(Head(e.word.v.words))

\* The variables a value refers to as a bare parameter, inside double quotes,
\* inside a concatenation, or as the parameter of a replace / substring.
DirectWord(w) ==
    CASE w.kind = "Simple" -> LeadSimple(w.word)
      [] w.kind = "DoubleQuoted" -> UNION {LeadSimple(w.words[i]) : i \in 1..Len(w.words)}
      [] OTHER -> {}

DirectRefs(e) ==
    IF ~e.word.some THEN {}
    ELSE IF e.word.v.kind = "Single" THEN DirectWord(e.word.v.word)
    ELSE UNION {DirectWord(e.word.v.words[i]) : i \in 1..Len(e.word.v.words)}

\* Literal text: what a value made of literals, colons and quoted literals spells.
RECURSIVE LitSeq(_, _)
IsLitSimple(w) == w.kind \in {"Literal", "Colon"}
LitSimple(w) == IF w.kind = "Colon" THEN <<":">> ELSE w.s
IsLitWord(w) ==
    CASE w.kind = "SingleQuoted" -> TRUE
      [] w.kind = "Simple" -> IsLitSimple(w.word)
      [] w.kind = "DoubleQuoted" -> \A i \in 1..Len(w.words) : IsLitSimple(w.words[i])
LitSeq(ws, simple) ==
    IF ws = <<>> THEN <<>>
    ELSE (IF simple THEN LitSimple(Head(ws))
          ELSE CASE Head(ws).kind = "SingleQuoted" -> Head(ws).s
                 [] Head(ws).kind = "Simple" -> LitSimple(Head(ws).word)
                 [] Head(ws).kind = "DoubleQuoted" -> LitSeq(Head(ws).words, TRUE))
         \o LitSeq(Tail(ws), simple)
IsLiteralValue(e) ==
    /\ e.word.some
    /\ IF e.word.v.kind = "Single" THEN IsLitWord(e.word.v.word)
       ELSE \A i \in 1..Len(e.word.v.words) : IsLitWord(e.word.v.words[i])
LitText(e) == IF e.word.v.kind = "Single" THEN LitSeq(<<e.word.v.word>>, FALSE) ELSE LitSeq(e.word.v.words, FALSE)

(***************************************************************************)
(* Inputs.                                                                 *)
(***************************************************************************)
a == <<"a">>
b == <<"b">>

\* The values the scripts of Spec assign.
ScriptWords ==
    { Single(Simple(Literal(a))),
      Single(SingleQuoted(b)),
      Concat(<<Simple(Literal(a)), Simple(Colon), SingleQuoted(b)>>),
      Single(DoubleQuoted(<<Literal(b), Escaped(<<NL>>)>>)),
      Single(Simple(Param(Var("A")))),
      Single(DoubleQuoted(<<Param(Var("B"))>>)),
      Single(Simple(Subst(ReplaceString(Var("A"), Some(Single(Simple(Literal(<<"a", "/", "b">>)))))))),
      Single(Simple(Subst(OtherSubst("Default", Var("B"))))) }

ScriptEntries == [name : Names, word : {None} \cup {Some(w) : w \in ScriptWords}]

\* The shapes of a simple command: whether it has command words, and the kind
\* of each of its redirects_or_env_vars.
EntryKinds == UNION {[1..n -> {"EnvVar", "Redirect"}] : n \in 0..MaxEntries}
SimpleShapes == {sh \in [words : BOOLEAN, entries : EntryKinds] : sh.words \/ sh.entries # <<>>}

\* The Contexts a caller hands to parse.
StartContexts == [Names -> {None, Some(b)}]

\* The connectives that may join the next listable command to the list.
Connectives(done) == IF done = <<>> THEN {<<>>} ELSE {<<"And">>, <<"Or">>}

NoEntry == [name |-> "", word |-> None]

\* Whether a disallowed construct is met with nothing failed before it in its list.
Met(was, res) ==
    IF was # "none" THEN was
    ELSE IF \A i \in 1..Len(res) : res[i].tag = "Ok" THEN "clean" ELSE "dirty"

(***************************************************************************)
(* parse: the loop over parser.complete_command().                         *)
(***************************************************************************)
Init ==
    /\ context \in StartContexts
    /\ iterOrder \in Orders(Present(context))
    /\ pc = "parse"
    /\ parseRes = NoResult
    /\ listLen = 0
    /\ conns = <<>>
    /\ entries = <<>>
    /\ construct = "none"
    /\ results = <<>>
    /\ idx = 0
    /\ committed = FALSE
    /\ stmtAssigned = {}
    /\ lastRefs = {}
    /\ expected = context
    /\ literalOnly = TRUE
    /\ entry = NoEntry

\* complete_command() fails: parse returns InvalidSyntax at the parser's position.
ParserError ==
    /\ pc = "parse"
    /\ parseRes' = InvalidSyntax(<<"parser">>)
    /\ pc' = "done"
    /\ literalOnly' = FALSE
    /\ UNCHANGED <<context, iterOrder, listLen, conns, entries, construct, results, idx,
                   committed, stmtAssigned, lastRefs, expected, entry>>

\* complete_command() yields None: the loop breaks and parse returns Ok(()).
EndOfInput ==
    /\ pc = "parse"
    /\ parseRes' = OkUnit
    /\ pc' = "done"
    /\ UNCHANGED <<context, iterOrder, listLen, conns, entries, construct, results, idx,
                   committed, stmtAssigned, lastRefs, expected, literalOnly, entry>>

\* get_args_top_level on Command::Job.
JobCommand ==
    /\ pc = "parse"
    /\ parseRes' = InvalidSyntax(<<"Syntax error: job not allowed.">>)
    /\ pc' = "done"
    /\ construct' = Met(construct, <<>>)
    /\ results' = <<>>
    /\ conns' = <<>>
    /\ listLen' = 0
    /\ literalOnly' = FALSE
    /\ UNCHANGED <<context, iterOrder, entries, idx, committed, stmtAssigned, lastRefs,
                   expected, entry>>

\* get_args_top_level on Command::List: the iterator over first and rest starts.
ListCommand ==
    /\ pc = "parse"
    /\ \E n \in 1..MaxList : listLen' = n
    /\ conns' = <<>>
    /\ results' = <<>>
    /\ stmtAssigned' = {}
    /\ lastRefs' = {}
    /\ pc' = "list"
    /\ UNCHANGED <<context, iterOrder, parseRes, entries, construct, idx, committed,
                   expected, literalOnly, entry>>

\* A listable or pipeable command that get_args_listable / get_args_pipeable rejects.
Rejected(reason, disallowed) ==
    /\ pc = "list"
    /\ MoreToEvaluate(results, listLen)
    /\ \E c \in Connectives(results) : conns' = conns \o c
    /\ results' = Append(results, InvalidSyntax(<<reason>>))
    /\ construct' = IF disallowed THEN Met(construct, results) ELSE construct
    /\ literalOnly' = FALSE
    /\ lastRefs' = {}
    /\ UNCHANGED <<context, iterOrder, pc, parseRes, listLen, entries, idx, committed,
                   stmtAssigned, expected, entry>>

ListablePipe == Rejected("Pipe not allowed", TRUE)
PipeableCompound == Rejected("Redirection not allowed.", FALSE)
PipeableFunctionDef == Rejected("Function definition not allowed.", TRUE)

\* get_args_simple up to its loop: the command is rejected, or its entries are
\* about to be evaluated.
SimpleCommand ==
    /\ pc = "list"
    /\ MoreToEvaluate(results, listLen)
    /\ \E c \in Connectives(results) : conns' = conns \o c
    /\ \E sh \in SimpleShapes :
        /\ construct' = IF \E i \in 1..Len(sh.entries) : sh.entries[i] = "Redirect"
                        THEN Met(construct, results) ELSE construct
        /\ literalOnly' = (literalOnly /\ ~sh.words /\ \A i \in 1..Len(sh.entries) : sh.entries[i] = "EnvVar")
        /\ IF SimplePreCheck(sh).tag = "Err"
           THEN /\ results' = Append(results, SimplePreCheck(sh))
                /\ pc' = "list"
                /\ entries' = sh.entries
                /\ idx' = 0
           ELSE /\ results' = results
                /\ pc' = "simple"
                /\ entries' = sh.entries
                /\ idx' = 1
    /\ committed' = FALSE
    /\ lastRefs' = {}
    /\ UNCHANGED <<context, iterOrder, parseRes, listLen, stmtAssigned,
                   expected, entry>>

\* One turn of the loop of get_args_simple over redirects_or_env_vars.
EnvVarStep ==
    /\ pc = "simple"
    /\ IF entries[idx] = "Redirect"
       THEN /\ results' = Append(results, InvalidSyntax(<<"Redirects not allowed.">>))
            /\ pc' = "list"
            /\ lastRefs' = {}
            /\ entries' = <<>>
            /\ idx' = 0
            /\ UNCHANGED <<context, iterOrder, committed, stmtAssigned,
                           expected, literalOnly>>
       ELSE \E e \in ScriptEntries :
            \E r \in {EnvVarValue(e, context)}, last \in {idx = Len(entries)} :
            /\ lastRefs' = ValueRefs(e)
            /\ literalOnly' = (literalOnly /\ IsLiteralValue(e))
            /\ IF r.tag = "Ok"
               THEN /\ context' = ContextInsert(context, e.name, r.val)
                    /\ iterOrder' \in OrdersAfterInsert(iterOrder, context, e.name)
                    /\ committed' = TRUE
                    /\ stmtAssigned' = IF context[e.name].some THEN stmtAssigned
                                       ELSE stmtAssigned \cup {e.name}
                    /\ results' = IF last THEN Append(results, OkUnit) ELSE results
                    /\ pc' = IF last THEN "list" ELSE "simple"
                    /\ entries' = IF last THEN <<>> ELSE entries
                    /\ idx' = IF last THEN 0 ELSE idx + 1
               ELSE /\ results' = IF r.tag = "Err" THEN Append(results, r) ELSE results
                    /\ pc' = IF r.tag = "Err" THEN "list" ELSE "panic"
                    /\ entries' = <<>>
                    /\ idx' = 0
                    /\ UNCHANGED <<context, iterOrder, committed, stmtAssigned>>
            /\ expected' = IF literalOnly' THEN [expected EXCEPT ![e.name] = Some(LitText(e))]
                           ELSE context'
    /\ UNCHANGED <<parseRes, listLen, conns, construct, entry>>

\* The loop over the collected results, and parse's handling of what it returns.
ListReturn ==
    /\ pc = "list"
    /\ ~MoreToEvaluate(results, listLen)
    /\ IF FirstError(results).tag = "Err"
       THEN parseRes' = FirstError(results) /\ pc' = "done"
       ELSE parseRes' = parseRes /\ pc' = "parse"
    /\ lastRefs' = {}
    /\ UNCHANGED <<context, iterOrder, listLen, conns, entries, construct, results, idx,
                   committed, stmtAssigned, expected, literalOnly, entry>>

Next ==
    \/ ParserError
    \/ EndOfInput
    \/ JobCommand
    \/ ListCommand
    \/ ListablePipe
    \/ PipeableCompound
    \/ PipeableFunctionDef
    \/ SimpleCommand
    \/ EnvVarStep
    \/ ListReturn

Spec == Init /\ [][Next]_vars

(***************************************************************************)
(* parse on a script of one assignment, NAME=value, for every value of a   *)
(* bounded set and every Context of a bounded set.                         *)
(***************************************************************************)
EvalParams == {Var("A"), Var("B"), SpecialParam}

SubstCommands ==
    { None,
      Some(Single(Simple(Literal(<<"a", "/", "b">>)))),
      Some(Single(Simple(Literal(<<"0", ":", "1">>)))),
      Some(Single(Simple(Param(Var("B"))))) }

EvalSubsts ==
    {ReplaceString(p, c) : p \in EvalParams, c \in SubstCommands}
    \cup {ReplaceStringAll(p, c) : p \in EvalParams, c \in SubstCommands}
    \cup {Substring(p, c) : p \in EvalParams, c \in SubstCommands}
    \cup {OtherSubst(k, p) : k \in OtherSubstKinds, p \in EvalParams}

EvalSimpleWords ==
    {Literal(a), Escaped(<<NL>>), Escaped(b), Colon, Star}
    \cup {Param(p) : p \in EvalParams}
    \cup {Subst(s) : s \in EvalSubsts}

QuotedParts ==
    {Literal(a), Param(SpecialParam), Param(Var("A")), Param(Var("B")), Subst(OtherSubst("Len", Var("A")))}

ConcatParts ==
    { Simple(Literal(a)), Simple(Star), Simple(Param(Var("A"))), Simple(Param(Var("B"))),
      SingleQuoted(b), DoubleQuoted(<<Param(Var("B"))>>) }

EvalWords ==
    {Single(Simple(w)) : w \in EvalSimpleWords}
    \cup {Single(SingleQuoted(b))}
    \cup {Single(DoubleQuoted(<<w>>)) : w \in QuotedParts}
    \cup {Single(DoubleQuoted(<<v, w>>)) : v, w \in QuotedParts}
    \cup {Concat(<<v, w>>) : v, w \in ConcatParts}

EvalEntries == [name : Names, word : {None} \cup {Some(w) : w \in EvalWords}]

EvalContexts == [Names -> {None, Some(a), Some(<<"a", "b", "a">>)}]

EvalInit ==
    /\ context \in EvalContexts
    /\ iterOrder \in Orders(Present(context))
    /\ entry \in EvalEntries
    /\ pc = "input"
    /\ parseRes = NoResult
    /\ listLen = 1
    /\ conns = <<>>
    /\ entries = <<"EnvVar">>
    /\ construct = "none"
    /\ results = <<>>
    /\ idx = 1
    /\ committed = FALSE
    /\ stmtAssigned = {}
    /\ lastRefs = {}
    /\ expected = context
    /\ literalOnly = TRUE

\* parse on the script made of the one assignment entry: complete_command()
\* yields the list of one simple command, get_args_simple evaluates its entry,
\* and parse returns the first error or, at the end of the input, Ok(()).
ParseAssignment ==
    /\ pc = "input"
    /\ \E r \in {EnvVarValue(entry, context)} :
        /\ lastRefs' = ValueRefs(entry)
        /\ IF r.tag = "Ok"
           THEN /\ context' = ContextInsert(context, entry.name, r.val)
                /\ iterOrder' \in OrdersAfterInsert(iterOrder, context, entry.name)
                /\ committed' = TRUE
                /\ stmtAssigned' = IF context[entry.name].some THEN {} ELSE {entry.name}
                /\ results' = <<OkUnit>>
                /\ parseRes' = OkUnit
                /\ pc' = "done"
           ELSE /\ results' = IF r.tag = "Err" THEN <<r>> ELSE results
                /\ parseRes' = IF r.tag = "Err" THEN FirstError(<<r>>) ELSE parseRes
                /\ pc' = IF r.tag = "Err" THEN "done" ELSE "panic"
                /\ UNCHANGED <<context, iterOrder, committed, stmtAssigned>>
    /\ UNCHANGED <<listLen, conns, entries, construct, idx, expected, literalOnly, entry>>

EvalNext == ParseAssignment

EvalSpec == EvalInit /\ [][EvalNext]_vars

(***************************************************************************)
(* Properties.                                                             *)
(***************************************************************************)
IsContextError(r) == r.tag = "Err" /\ r.kind = "ContextError"
IsInvalidSyntax(r) == r.tag = "Err" /\ r.kind = "InvalidSyntax"
HasError(res) == \E i \in 1..Len(res) : res[i].tag = "Err"
Mentions(reason, name) == \E i \in 1..Len(reason) : reason[i] = name
UnsetRefs(e, ctx) == {n \in ValueRefs(e) : ~ctx[n].some}
LeadUnset(e, ctx) == \E n \in LeadRef(e) : ~ctx[n].some

\* A turn of the loop of get_args_simple that evaluated its value to a string.
EvaluatedOk ==
    /\ pc = "simple"
    /\ pc' \in {"simple", "list"}
    /\ pc' = "list" => results'[Len(results')].tag = "Ok"

\* A step that appended a result to the results vector.
Appended == Len(results') = Len(results) + 1 /\ pc \in {"list", "simple"}

\* C1: parse is fail-fast: once a command of the list has failed, nothing that
\* comes after it is committed, so on failure the Context holds exactly the
\* assignments completed before the failure point.
C1_FailFast ==
    [][(pc \in {"list", "simple"} /\ HasError(results)) => context' = context]_vars

\* C2 as claimed: a value that refers to a plain variable missing from the
\* Context makes parse fail with a ContextError (a call that aborts apart), the
\* assignment not being inserted.
C2_UnsetIsContextError ==
    [][(pc = "input" /\ \E n \in DirectRefs(entry) : ~context[n].some)
        => (pc' = "panic" \/ (IsContextError(parseRes') /\ context' = context))]_vars

\* C2, amended: a value that refers to a plain variable missing from the Context
\* never evaluates: parse does not return Ok and the assignment is not
\* inserted; the error is the one of the first element of the value that fails,
\* a ContextError when the value starts with the lookup of the missing variable.
C2_UnsetNeverEvaluates ==
    [][pc = "input" =>
        /\ UnsetRefs(entry, context) # {} => (parseRes'.tag # "Ok" /\ context' = context)
        /\ LeadUnset(entry, context) =>
              (pc' = "done" /\ IsContextError(parseRes') /\ context' = context)]_vars

C2_Witness ==
    /\ pc = "done"
    /\ IsContextError(parseRes)
    /\ entry.word.some
    /\ entry.word.v.kind = "Concat"
    /\ LeadUnset(entry, context)

\* C3 as claimed: an input holding a pipe, a redirection, a function definition
\* or a job makes parse return InvalidSyntax, whatever else is in the script.
C3_DisallowedIsInvalidSyntax ==
    (pc = "done" /\ construct # "none") => IsInvalidSyntax(parseRes)

\* C3, amended: parse never returns Ok for such an input; what it returns is the
\* first error of the list, which is InvalidSyntax when every command of the
\* list before the disallowed construct evaluated without error.
C3_DisallowedIsRejected ==
    (pc = "done" /\ construct # "none") =>
        /\ parseRes.tag = "Err"
        /\ construct = "clean" => IsInvalidSyntax(parseRes)

C3_Witness ==
    /\ pc = "done"
    /\ construct = "clean"
    /\ committed
    /\ Len(results) = 2
    /\ results[1].tag = "Ok"
    /\ IsInvalidSyntax(parseRes)

\* C4: a script made only of NAME=value assignments with literal values
\* succeeds, and its Context is the starting Context updated by each assignment
\* in source order, the last write to a name winning.
C4_LiteralScript ==
    literalOnly =>
        /\ context = expected
        /\ pc # "panic"
        /\ ~HasError(results)
        /\ pc = "done" => parseRes = OkUnit

C4_Witness ==
    /\ pc = "done"
    /\ literalOnly
    /\ parseRes = OkUnit
    /\ context["A"] = Some(<<"a", ":", "b">>)
    /\ context["B"] = Some(a)

\* C5: B=${UNDEFINED}, with UNDEFINED not in the Context, fails with a
\* ContextError whose reason mentions the name of the variable.
C5_ReasonNamesVariable ==
    \A n \in Names :
        (pc = "done" /\ entry.word = Some(Single(Simple(Param(Var(n))))) /\ ~context[n].some)
            => (IsContextError(parseRes) /\ Mentions(parseRes.reason, n))

\* C6: a value holding a parameter substitution other than replace-first,
\* replace-all and substring is rejected: parse returns an error, the Context is
\* not updated, and the call never aborts.
C6_UnsupportedIsRejected ==
    [][(pc = "input" /\ entry.word.some /\ entry.word.v.kind = "Single"
            /\ entry.word.v.word.kind = "Simple" /\ entry.word.v.word.word.kind = "Subst"
            /\ entry.word.v.word.word.subst.kind \in OtherSubstKinds)
        => (pc' = "done" /\ parseRes'.tag = "Err" /\ context' = context)]_vars

\* C7: the Context iterates in first-definition order: a name defined for the
\* first time goes last, and assigning a name already defined moves nothing.
C7_InsertionOrder ==
    [][/\ \A n \in Names : (~context[n].some /\ context'[n].some) => iterOrder' = Append(iterOrder, n)
       /\ Present(context') = Present(context) => iterOrder' = iterOrder]_vars

C9_RejectedSimpleCommitsNothing ==
    [][(Appended /\ results'[Len(results')] \in
            {InvalidSyntax(<<"Commands not allowed.">>), InvalidSyntax(<<"Redirects not allowed.">>)})
        => (context' = context /\ ~committed')]_vars

C9_Witness ==
    /\ pc = "list"
    /\ Len(results) = 2
    /\ results[1].tag = "Ok"
    /\ results[2] = InvalidSyntax(<<"Redirects not allowed.">>)
    /\ entries = <<"EnvVar", "Redirect">>
    /\ ~committed

\* C10: the connectives of a list never short-circuit: the list returns only
\* when every one of its commands has been evaluated, once and in order,
\* whatever the connectives and whatever the results of the commands before.
C10_NoShortCircuit ==
    [][/\ (pc = "list" /\ pc' \in {"parse", "done"}) =>
            (Len(results) = listLen /\ Len(conns) = listLen - 1)
       /\ (pc \in {"list", "simple"} /\ pc' # "panic") =>
            (Len(results') \in {Len(results), Len(results) + 1}
             /\ SubSeq(results', 1, Len(results)) = results)]_vars

C10_Witness ==
    /\ pc = "parse"
    /\ conns = <<"Or">>
    /\ results = <<OkUnit, OkUnit>>
    /\ stmtAssigned = {"A", "B"}

====
